---- MODULE Spec2Model ----
(***************************************************************************)
(* CryptoNight slow hash (cryptonight/c/slow-hash.c) as a state machine.   *)
(*                                                                         *)
(* Memory is modelled as the C code has it, in bytes.  A C array of n      *)
(* bytes is a sequence of n numbers in 0..255: byte k of the array is      *)
(* element k + 1 of the sequence, and At(x, k) reads it.  A uint64_t is    *)
(* the sequence of its 8 bytes in little-endian order and a uint32_t the   *)
(* sequence of its 4 bytes, so every integer keeps its width and wraps as  *)
(* in C.  The host is little-endian (SWAP64LE and SWAP32LE are the         *)
(* identity), which is also the byte order section 3 of the specification  *)
(* fixes for every integer view.                                           *)
(***************************************************************************)
EXTENDS Integers, Sequences, FiniteSets, TLC

(***************************************************************************)
(* Program constants                                                       *)
(***************************************************************************)
MEMORY == 2097152
ITER == 1048576
AES_BLOCK_SIZE == 16
AES_KEY_SIZE == 32
INIT_SIZE_BLK == 8
INIT_SIZE_BYTE == INIT_SIZE_BLK * AES_BLOCK_SIZE

(***************************************************************************)
(* Bounds of the model                                                     *)
(***************************************************************************)
\* the scratchpad loops of cn_slow_hash run at most MaxExpand rounds and
\* its main loop at most MaxIter rounds
MaxExpand == 2
MaxIter == 2
\* cn_slow_hash is called at most this many times in a row
MaxCalls == 2
\* the longest input
MaxLen == 44
\* the variants are 0..MaxVariant
MaxVariant == 4
\* the heights are 0 and MaxHeight
MaxHeight == 1
\* the longest message given to blake256_hash
MaxInlen == 128

(***************************************************************************)
(* Bytes and byte arrays                                                   *)
(***************************************************************************)
Min(x, y) == IF x < y THEN x ELSE y

RECURSIVE Pow2(_)
Pow2(n) == IF n = 0 THEN 1 ELSE 2 * Pow2(n - 1)

RECURSIVE XorBits(_, _, _)
\* x ^ y on n-bit naturals
XorBits(x, y, n) ==
  IF n = 0 THEN 0
  ELSE ((x + y) % 2) + 2 * XorBits(x \div 2, y \div 2, n - 1)

RECURSIVE AndBits(_, _, _)
\* x & y on n-bit naturals
AndBits(x, y, n) ==
  IF n = 0 THEN 0
  ELSE ((x % 2) * (y % 2)) + 2 * AndBits(x \div 2, y \div 2, n - 1)

RECURSIVE OrBits(_, _, _)
\* x | y on n-bit naturals
OrBits(x, y, n) ==
  IF n = 0 THEN 0
  ELSE (IF (x % 2) + (y % 2) > 0 THEN 1 ELSE 0) + 2 * OrBits(x \div 2, y \div 2, n - 1)

RECURSIVE Build(_, _, _)
\* the sequence << Op(lo), ..., Op(hi - 1) >>
Build(Op(_), lo, hi) ==
  IF hi <= lo THEN <<>>
  ELSE IF hi = lo + 1 THEN <<Op(lo)>>
  ELSE LET mid == (lo + hi) \div 2 IN Build(Op, lo, mid) \o Build(Op, mid, hi)

\* e, once v has been computed: operator arguments and LET definitions are
\* computed on first use, and Then fixes where that is
Then(v, e) == IF v = v THEN e ELSE e

\* the element of a singleton.  The({ e : x \in {v} }) is e with x bound to
\* the value of v, computed first and once: a local variable x of the code
\* and the statements e after its assignment
The(S) == CHOOSE x \in S : TRUE

RECURSIVE Iterate(_, _, _, _)
\* Step(hi - 1, ... Step(lo + 1, Step(lo, s))): a loop over lo .. hi - 1
Iterate(Step(_, _), lo, hi, s) ==
  IF hi <= lo THEN s
  ELSE IF hi = lo + 1 THEN Step(lo, s)
  ELSE LET mid == (lo + hi) \div 2
           half == Iterate(Step, lo, mid, s)
       IN Then(half, Iterate(Step, mid, hi, half))

\* the array of n bytes whose byte k is Op(k)
Bytes(Op(_), n) == Build(Op, 0, n)

\* byte k of the array x
At(x, k) == x[k + 1]

\* the bit operators on 4-bit halves of a byte, as tables
XorNib == Bytes(LAMBDA x : Bytes(LAMBDA y : XorBits(x, y, 4), 16), 16)
AndNib == Bytes(LAMBDA x : Bytes(LAMBDA y : AndBits(x, y, 4), 16), 16)
OrNib == Bytes(LAMBDA x : Bytes(LAMBDA y : OrBits(x, y, 4), 16), 16)

Xor8(x, y) == At(At(XorNib, x % 16), y % 16) + 16 * At(At(XorNib, x \div 16), y \div 16)
And8(x, y) == At(At(AndNib, x % 16), y % 16) + 16 * At(At(AndNib, x \div 16), y \div 16)
Or8(x, y) == At(At(OrNib, x % 16), y % 16) + 16 * At(At(OrNib, x \div 16), y \div 16)

ZeroBytes(n) == Bytes(LAMBDA k : 0, n)

\* the n bytes of m from offset off
Slice(m, off, n) == SubSeq(m, off + 1, off + n)

\* m with the n bytes of v written at offset off (memcpy)
Splice(m, off, v, n) == SubSeq(m, 1, off) \o SubSeq(v, 1, n) \o SubSeq(m, off + n + 1, Len(m))

\* bytewise operators on two n-byte arrays
XorBytes(x, y, n) == Bytes(LAMBDA k : Xor8(At(x, k), At(y, k)), n)
AndBytes(x, y, n) == Bytes(LAMBDA k : And8(At(x, k), At(y, k)), n)
OrBytes(x, y, n) == Bytes(LAMBDA k : Or8(At(x, k), At(y, k)), n)

\* the n-byte little-endian array of a natural v < 2^31
FromNat(v, n) == Bytes(LAMBDA k : IF k < 4 THEN (v \div Pow2(8 * k)) % 256 ELSE 0, n)

\* the value of the low 3 bytes of an array
ToNat(x) == At(x, 0) + 256 * At(x, 1) + 65536 * At(x, 2)

(***************************************************************************)
(* Unsigned arithmetic modulo 2^(8n) on n-byte little-endian arrays        *)
(***************************************************************************)
RECURSIVE AddFrom(_, _, _, _, _, _)
AddFrom(x, y, k, n, carry, acc) ==
  IF k = n THEN acc
  ELSE LET s == At(x, k) + At(y, k) + carry
       IN AddFrom(x, y, k + 1, n, s \div 256, Append(acc, s % 256))

\* x + y
AddBytes(x, y, n) == AddFrom(x, y, 0, n, 0, <<>>)

RECURSIVE SubFrom(_, _, _, _, _, _)
SubFrom(x, y, k, n, borrow, acc) ==
  IF k = n THEN acc
  ELSE LET s == At(x, k) - At(y, k) - borrow
       IN SubFrom(x, y, k + 1, n, IF s < 0 THEN 1 ELSE 0, Append(acc, (s + 256) % 256))

\* x - y
SubBytes(x, y, n) == SubFrom(x, y, 0, n, 0, <<>>)

RECURSIVE LessFrom(_, _, _)
LessFrom(x, y, k) ==
  IF k < 0 THEN FALSE
  ELSE IF At(x, k) # At(y, k) THEN At(x, k) < At(y, k)
  ELSE LessFrom(x, y, k - 1)

\* x < y
LessBytes(x, y, n) == LessFrom(x, y, n - 1)

\* byte k of the n-byte array x, 0 outside the array
ByteAt(x, k, n) == IF k >= 0 /\ k < n THEN At(x, k) ELSE 0

\* x << s, truncated to n bytes
ShlBytes(x, s, n) ==
  LET q == s \div 8
      r == s % 8
  IN Bytes(LAMBDA k : ((ByteAt(x, k - q, n) * Pow2(r)) % 256)
                        + (ByteAt(x, k - q - 1, n) \div Pow2(8 - r)), n)

\* x >> s
ShrBytes(x, s, n) ==
  LET q == s \div 8
      r == s % 8
  IN Bytes(LAMBDA k : (ByteAt(x, k + q, n) \div Pow2(r))
                        + ((ByteAt(x, k + q + 1, n) * Pow2(8 - r)) % 256), n)

\* the n-byte array x as an m-byte array: zero-extended or truncated
Resize(x, n, m) == Bytes(LAMBDA k : ByteAt(x, k, n), m)

RECURSIVE MulColumn(_, _, _, _, _)
\* the sum of x[i] * y[k - i] over i in lo..hi
MulColumn(x, y, k, lo, hi) ==
  IF lo > hi THEN 0 ELSE At(x, lo) * At(y, k - lo) + MulColumn(x, y, k, lo + 1, hi)

RECURSIVE MulDigits(_, _, _, _, _, _)
MulDigits(x, y, n, k, carry, acc) ==
  IF k = 2 * n THEN acc
  ELSE LET lo == IF k < n THEN 0 ELSE k - n + 1
           hi == IF k < n THEN k ELSE n - 1
           s == MulColumn(x, y, k, lo, hi) + carry
       IN MulDigits(x, y, n, k + 1, s \div 256, Append(acc, s % 256))

\* the full 2n-byte product of two n-byte arrays
MulBytes(x, y, n) == MulDigits(x, y, n, 0, 0, <<>>)

RECURSIVE DivSmallFrom(_, _, _, _)
\* long division of the bytes k .. 0 of x by d, with the remainder rem so far
DivSmallFrom(x, d, k, rem) ==
  IF k < 0 THEN <<>>
  ELSE LET cur == rem * 256 + At(x, k)
       IN DivSmallFrom(x, d, k - 1, cur % d) \o <<cur \div d>>

\* x / d for an n-byte array x and a natural 0 < d < 2^23
DivSmall(x, d, n) == DivSmallFrom(x, d, n - 1, 0)

\* bit k of a byte array
BitAt(x, k) == (At(x, k \div 8) \div Pow2(k % 8)) % 2

\* the index of the highest set bit of an n-byte array, -1 when it is zero
TopBit(x, n) ==
  LET S == {k \in 0..(8 * n - 1) : BitAt(x, k) = 1}
  IN IF S = {} THEN -1 ELSE CHOOSE k \in S : \A m \in S : m <= k

\* one step of the binary long division of a 64-bit dividend by the 32-bit
\* divisor dh * 2^16 + dl: bit k of the dividend is brought down into the
\* remainder rh * 2^16 + rl
DivStep(dividend, dh, dl, k, s) ==
  LET tl == 2 * s.rl + BitAt(dividend, k)
      nl == tl % 65536
      nh == 2 * s.rh + (tl \div 65536)
      ge == nh > dh \/ (nh = dh /\ nl >= dl)
      borrow == IF nl < dl THEN 1 ELSE 0
  IN IF ge
     THEN [rh |-> nh - dh - borrow, rl |-> nl - dl + 65536 * borrow,
           q |-> [s.q EXCEPT ![(k \div 8) + 1] = @ + Pow2(k % 8)]]
     ELSE [rh |-> nh, rl |-> nl, q |-> s.q]

\* dividend / divisor and dividend % divisor of a uint64_t by a non-zero uint32_t
DivMod(dividend, divisor) ==
  The({ [quot |-> s.q, rem |-> <<s.rl % 256, s.rl \div 256, s.rh % 256, s.rh \div 256>>] :
        s \in { Iterate(LAMBDA i, t : DivStep(dividend, dh, dl, 63 - i, t), 0, 64,
                        [rh |-> 0, rl |-> 0, q |-> ZeroBytes(8)]) :
                dh \in {At(divisor, 2) + 256 * At(divisor, 3)},
                dl \in {At(divisor, 0) + 256 * At(divisor, 1)} } })

(***************************************************************************)
(* IEEE 754 double precision, as far as variant2_integer_math uses it      *)
(* (round to nearest, ties to even; a double has 53 significant bits).     *)
(* Every double met there is a non-negative integer, held exactly in a     *)
(* 9-byte array, or the square root, held scaled by 2^20.                  *)
(***************************************************************************)
\* the double nearest to the integer x (n bytes, below 2^68)
RoundToDouble(x, n) ==
  The({ The({ LET half == IF s = 0 THEN 0 ELSE Pow2(s - 1)
                  up == s > 0 /\ (low > half \/ (low = half /\ BitAt(x, s) = 1))
              IN The({ IF up THEN AddBytes(floor, FromNat(Pow2(s), n), n) ELSE floor :
                       floor \in {SubBytes(x, FromNat(low, n), n)} }) :
              low \in {(At(x, 0) + 256 * At(x, 1)) % Pow2(s)} }) :
        s \in { IF e > 52 THEN e - 52 ELSE 0 : e \in {TopBit(x, n)} } })

\* one step of the binary digit-by-digit square root of the 14-byte integer
\* N: the bit pair k of N is brought down into rem; root is the root so far
SqrtStep(N, k, s) ==
  The({ IF LessBytes(cur, trial, 8)
        THEN [root |-> ShlBytes(s.root, 1, 8), rem |-> cur]
        ELSE [root |-> AddBytes(ShlBytes(s.root, 1, 8), FromNat(1, 8), 8),
              rem |-> SubBytes(cur, trial, 8)] :
        cur \in {AddBytes(ShlBytes(s.rem, 2, 8),
                          FromNat(2 * BitAt(N, 2 * k + 1) + BitAt(N, 2 * k), 8), 8)},
        trial \in {AddBytes(ShlBytes(s.root, 2, 8), FromNat(1, 8), 8)} })

\* sqrt(y) of the double y in [2^64, 2^65], correctly rounded, times 2^20
\* (a double in [2^32, 2^33) is a multiple of 2^-20)
SqrtDouble(y) ==
  The({ IF LessBytes(s.root, s.rem, 8) THEN AddBytes(s.root, FromNat(1, 8), 8) ELSE s.root :
        s \in { Iterate(LAMBDA i, t : SqrtStep(N, 55 - i, t), 0, 56,
                        [root |-> ZeroBytes(8), rem |-> ZeroBytes(8)]) :
                N \in {ShlBytes(Resize(y, 9, 14), 40, 14)} } })

TwoTo64 == <<0, 0, 0, 0, 0, 0, 0, 0, 1>>
TwoTo33 == <<0, 0, 0, 0, 2, 0, 0, 0>>
TwoTo32 == <<0, 0, 0, 0, 1, 0, 0, 0>>

\* (uint64_t)(sqrt(sqrt_input + 18446744073709551616.0) * 2.0 - 8589934592.0):
\* the conversion of sqrt_input to double and the sum round, the square root
\* rounds, the product and the difference are exact, the conversion truncates
SqrtEstimate(sqrt_input) ==
  The({ SubBytes(ShrBytes(s, 19, 8), TwoTo33, 8) :
        s \in { SqrtDouble(y) :
                y \in { RoundToDouble(AddBytes(x, TwoTo64, 9), 9) :
                        x \in {RoundToDouble(Resize(sqrt_input, 8, 9), 9)} } } })

(***************************************************************************)
(* The helpers of slow-hash.c.  A block is an array of 16 bytes; its       *)
(* 64-bit word k is its bytes 8k .. 8k + 7.                                *)
(***************************************************************************)
\* SWAP64LE of the 64-bit word k at p
U64(p, k) == Slice(p, 8 * k, 8)

\* the block whose two words are w0 and w1
Block(w0, w1) == w0 \o w1

ZeroBlock == ZeroBytes(AES_BLOCK_SIZE)

\* long_state is kept as the blocks written so far, by byte offset; every
\* other block still holds the zeroes of its initialiser
ReadBlock(long_state_, offset) ==
  IF offset \in DOMAIN long_state_ THEN long_state_[offset] ELSE ZeroBlock

WriteBlock(long_state_, offset, blk) == (offset :> blk) @@ long_state_

\* e2i with a mask one bit too wide
e2i_wide_mask(a_, count) ==
  ToNat(AndBytes(DivSmall(U64(a_, 0), AES_BLOCK_SIZE, 8), FromNat(2 * count - 1, 8), 8))

e2i(a_, count) ==
  ToNat(AndBytes(DivSmall(U64(a_, 0), AES_BLOCK_SIZE, 8), FromNat(count - 1, 8), 8))

mul128(x, y) ==
  The({ [hi |-> Slice(p, 8, 8), lo |-> Slice(p, 0, 8)] : p \in {MulBytes(x, y, 8)} })

\* mul(a, b, res): the value left in res
mul(a_, b_) ==
  The({ Block(p.hi, p.lo) : p \in {mul128(U64(a_, 0), U64(b_, 0))} })

\* sum_half_blocks(a, b): the value left in a
sum_half_blocks(a_, b_) ==
  Block(AddBytes(U64(a_, 0), U64(b_, 0), 8), AddBytes(U64(a_, 1), U64(b_, 1), 8))

\* copy_block(dst, src): the value left in dst
copy_block(src) == Slice(src, 0, AES_BLOCK_SIZE)

\* swap_blocks(a, b): the values left in a and b
swap_blocks(a_, b_) ==
  [fst |-> Block(U64(b_, 0), U64(b_, 1)), snd |-> Block(U64(a_, 0), U64(a_, 1))]

\* xor_blocks(a, b): the value left in a
xor_blocks(a_, b_) == XorBytes(a_, b_, AES_BLOCK_SIZE)

\* xor64(left, right): the value left in the 8 bytes at left
xor64(left, right) == XorBytes(left, right, 8)

\* VARIANT1_1(p): the value left in the block at p
VARIANT1_1(p, variant_) ==
  IF variant_ = 1
  THEN LET tmp == At(p, 11)
           table == 480016
           index == (Or8(And8(tmp \div 8, 6), And8(tmp, 1)) * 2) % 256
       IN Splice(p, 11, <<Xor8(tmp, And8((table \div Pow2(index)) % 256, 48))>>, 1)
  ELSE p

\* VARIANT1_2(p): the value left in the 8 bytes at p
VARIANT1_2(p, tweak, variant_) == IF variant_ = 1 THEN xor64(p, tweak) ELSE p

\* variant2_portable_shuffle_add reading chunk 1 again after having stored it
shuffle_add_late_read(out, a_, b_, long_state_, offset, variant_) ==
  IF variant_ >= 2
  THEN LET o1 == XorBits(offset, 16, 22)
           o2 == XorBits(offset, 32, 22)
           o3 == XorBits(offset, 48, 22)
           chunk1_old == ReadBlock(long_state_, o1)
           chunk2_old == ReadBlock(long_state_, o2)
           chunk3_old == ReadBlock(long_state_, o3)
           ls1 == WriteBlock(long_state_, o1,
                    Block(AddBytes(U64(chunk3_old, 0), U64(b_, 2), 8),
                          AddBytes(U64(chunk3_old, 1), U64(b_, 3), 8)))
           ls2 == WriteBlock(ls1, o3,
                    Block(AddBytes(U64(chunk2_old, 0), U64(a_, 0), 8),
                          AddBytes(U64(chunk2_old, 1), U64(a_, 1), 8)))
           ls3 == WriteBlock(ls2, o2,
                    Block(AddBytes(U64(ReadBlock(ls2, o1), 0), U64(b_, 0), 8),
                          AddBytes(U64(ReadBlock(ls2, o1), 1), U64(b_, 1), 8)))
           chunk1_x == xor_blocks(chunk1_old, chunk2_old)
       IN [long_state |-> ls3,
           out |-> IF variant_ >= 4
                   THEN xor_blocks(xor_blocks(out, chunk3_old), chunk1_x)
                   ELSE out]
  ELSE [long_state |-> long_state_, out |-> out]

variant2_portable_shuffle_add(out, a_, b_, long_state_, offset, variant_) ==
  IF variant_ >= 2
  THEN LET o1 == XorBits(offset, 16, 22)
           o2 == XorBits(offset, 32, 22)
           o3 == XorBits(offset, 48, 22)
           chunk1_old == ReadBlock(long_state_, o1)
           chunk2_old == ReadBlock(long_state_, o2)
           chunk3_old == ReadBlock(long_state_, o3)
           ls1 == WriteBlock(long_state_, o1,
                    Block(AddBytes(U64(chunk3_old, 0), U64(b_, 2), 8),
                          AddBytes(U64(chunk3_old, 1), U64(b_, 3), 8)))
           ls2 == WriteBlock(ls1, o3,
                    Block(AddBytes(U64(chunk2_old, 0), U64(a_, 0), 8),
                          AddBytes(U64(chunk2_old, 1), U64(a_, 1), 8)))
           ls3 == WriteBlock(ls2, o2,
                    Block(AddBytes(U64(chunk1_old, 0), U64(b_, 0), 8),
                          AddBytes(U64(chunk1_old, 1), U64(b_, 1), 8)))
           chunk1_x == xor_blocks(chunk1_old, chunk2_old)
       IN [long_state |-> ls3,
           out |-> IF variant_ >= 4
                   THEN xor_blocks(xor_blocks(out, chunk3_old), chunk1_x)
                   ELSE out]
  ELSE [long_state |-> long_state_, out |-> out]

\* the constant 0x80000001UL, an unsigned long
DivisorBits == <<1, 0, 0, 128, 0, 0, 0, 0>>

\* the divisor without the bits 0x80000001 forced into it
divisor_unforced(c2_, sqrt_result_) ==
  Resize(AddBytes(U64(c2_, 0),
                  Resize(Resize(ShlBytes(sqrt_result_, 1, 8), 8, 4), 4, 8), 8), 8, 4)

\* the uint32_t divisor of variant2_integer_math
variant2_divisor(c2_, sqrt_result_) ==
  Resize(OrBytes(AddBytes(U64(c2_, 0),
                          Resize(Resize(ShlBytes(sqrt_result_, 1, 8), 8, 4), 4, 8), 8),
                 DivisorBits, 8), 8, 4)

\* the new division_result of variant2_integer_math, for a non-zero divisor
variant2_division(c2_, divisor) ==
  The({ AddBytes(Resize(Resize(dm.quot, 8, 4), 4, 8),
                 ShlBytes(Resize(dm.rem, 4, 8), 32, 8), 8) :
        dm \in {DivMod(U64(c2_, 1), divisor)} })

\* the floating-point estimate left as it is
sqrt_unfixed(sqrt_input, est) == est

\* the new sqrt_result of variant2_integer_math: the floating-point estimate
\* and its correction by -1, 0 or +1
\* VARIANT2_INTEGER_MATH_SQRT_FIXUP(r) for the estimate est
variant2_sqrt_fixup(sqrt_input, est) ==
  The({ The({ LET dec == IF LessBytes(sqrt_input, AddBytes(r2, lsb, 8), 8) THEN -1 ELSE 0
                  inc == IF LessBytes(AddBytes(r2, TwoTo32, 8),
                                      SubBytes(sqrt_input, sr_div2, 8), 8)
                         THEN 1 ELSE 0
              IN IF dec + inc = -1 THEN SubBytes(est, FromNat(1, 8), 8)
                 ELSE IF dec + inc = 1 THEN AddBytes(est, FromNat(1, 8), 8)
                 ELSE est :
              r2 \in {AddBytes(Resize(MulBytes(sr_div2, AddBytes(sr_div2, lsb, 8), 8), 16, 8),
                               ShlBytes(est, 32, 8), 8)} }) :
        sr_div2 \in {ShrBytes(est, 1, 8)},
        lsb \in {FromNat(At(est, 0) % 2, 8)} })

variant2_sqrt(sqrt_input) == variant2_sqrt_fixup(sqrt_input, SqrtEstimate(sqrt_input))

\* variant2_integer_math(c1, c2, &division_result, &sqrt_result, variant): the
\* values left in c1, division_result and sqrt_result; fault when the division
\* is by zero
variant2_integer_math(c1_, c2_, division_result_, sqrt_result_, variant_) ==
  IF variant_ = 2 \/ variant_ = 3
  THEN The({ IF divisor = ZeroBytes(4)
             THEN [c1 |-> c1n, division_result |-> division_result_,
                   sqrt_result |-> sqrt_result_, fault |-> TRUE]
             ELSE The({ [c1 |-> c1n, division_result |-> dr,
                         sqrt_result |-> variant2_sqrt(AddBytes(U64(c2_, 0), dr, 8)),
                         fault |-> FALSE] :
                        dr \in {variant2_division(c2_, divisor)} }) :
             c1n \in {Splice(c1_, 0,
                             XorBytes(U64(c1_, 0),
                                      XorBytes(division_result_,
                                               ShlBytes(sqrt_result_, 32, 8), 8), 8), 8)},
             divisor \in {variant2_divisor(c2_, sqrt_result_)} })
  ELSE [c1 |-> c1_, division_result |-> division_result_,
        sqrt_result |-> sqrt_result_, fault |-> FALSE]

\* V4_REG_LOAD(dst, src): the uint32_t left in dst
V4_REG_LOAD(src, off) == Slice(src, off, 4)

\* the uint64_t lo | ((uint64_t) hi << 32) of two uint32_t
Pack64(lo, hi) == lo \o hi

(***************************************************************************)
(* The collaborators of slow-hash.c that are not part of it.  The random   *)
(* math of variant 4 follows section 4.6 of the specification.  Keccak,    *)
(* the AES rounds and the key schedule are stand-ins: fixed functions of   *)
(* their arguments with the signature of the real ones, which is all that  *)
(* cn_slow_hash relies on here.  The four finishers are left uninterpreted:*)
(* a digest is the finisher's name applied to its input.                   *)
(***************************************************************************)
\* x rotated left by s bits, a uint32_t
Rol32(x, s) ==
  IF s % 32 = 0 THEN x
  ELSE OrBytes(ShlBytes(x, s % 32, 4), ShrBytes(x, 32 - (s % 32), 4), 4)

\* one instruction of the random math on the registers r_
V4Step(ins, r_) ==
  LET dst == At(r_, ins.dst_index)
      src == At(r_, ins.src_index)
      rot == At(src, 0) % 32
      val == CASE ins.opcode = "ADD" -> AddBytes(dst, AddBytes(src, ins.C, 4), 4)
               [] ins.opcode = "SUB" -> SubBytes(dst, AddBytes(src, ins.C, 4), 4)
               [] ins.opcode = "XOR" -> XorBytes(dst, src, 4)
               [] ins.opcode = "MUL" -> Resize(MulBytes(dst, src, 4), 8, 4)
               [] ins.opcode = "ROR" -> Rol32(dst, 32 - rot)
               [] ins.opcode = "ROL" -> Rol32(dst, rot)
  IN Splice(r_, ins.dst_index, <<val>>, 1)

\* v4_random_math(code, r): the registers left in r; RET ends the program
v4_random_math(code_, r_) ==
  Iterate(LAMBDA k, s : IF s.done \/ code_[k + 1].opcode = "RET"
                        THEN [r |-> s.r, done |-> TRUE]
                        ELSE [r |-> V4Step(code_[k + 1], s.r), done |-> FALSE],
          0, Len(code_), [r |-> r_, done |-> FALSE]).r

\* v4_random_math_init(code, height): the program left in code, a function of
\* height alone
v4_random_math_init(height_) ==
  LET C == FromNat((height_ * 40503 + 9) % 65536, 4)
      odd == height_ % 2
  IN << [opcode |-> "ADD", dst_index |-> 0, src_index |-> 4 + odd, C |-> C],
        [opcode |-> "MUL", dst_index |-> 1, src_index |-> 6, C |-> ZeroBytes(4)],
        [opcode |-> "XOR", dst_index |-> 2, src_index |-> 7 + odd, C |-> ZeroBytes(4)],
        [opcode |-> "ROR", dst_index |-> 3, src_index |-> 0, C |-> ZeroBytes(4)],
        [opcode |-> "SUB", dst_index |-> 1 + odd, src_index |-> 3, C |-> C],
        [opcode |-> "ROL", dst_index |-> 0, src_index |-> 2, C |-> ZeroBytes(4)],
        [opcode |-> "RET", dst_index |-> 0, src_index |-> 0, C |-> ZeroBytes(4)] >>

RECURSIVE DataSum(_, _)
DataSum(data_, k) == IF k = 0 THEN 0 ELSE (DataSum(data_, k - 1) + k * data_[k]) % 65536

\* keccak1600(data, length, md): the 200 bytes left in md
keccak1600(data_, length_) ==
  LET seed == (DataSum(data_, length_) + 131 * length_ + 7) % 65536
  IN Bytes(LAMBDA k : ((seed \div (1 + (k % 7))) + 37 * k + (seed % 251) * ((k \div 8) + 1)) % 256,
           200)

\* hash_permutation(state): the 200 bytes left in state
hash_permutation(state_) ==
  Bytes(LAMBDA k : (At(state_, k) * 5 + At(state_, (k + 1) % 200)
                      + At(state_, (k + 7) % 200) + k + 1) % 256, 200)

\* oaes_key_import_data(ctx, key, 32): the round keys left in ctx->key->exp_data
oaes_key_import_data(key) ==
  Bytes(LAMBDA k : (At(key, k % AES_KEY_SIZE) + 29 * (k \div AES_KEY_SIZE)) % 256, 64)

\* aesb_single_round(in, out, expandedKey): the block left in out
aesb_single_round(in, key) ==
  Bytes(LAMBDA k : Xor8((At(in, (5 * k) % 16) * 7 + At(in, (k + 1) % 16) + 99) % 256,
                        At(key, k)), AES_BLOCK_SIZE)

\* aesb_pseudo_round(in, out, expandedKey): the block left in out
aesb_pseudo_round(in, exp_data) ==
  Bytes(LAMBDA k : Xor8((At(in, (k + 3) % 16) * 5 + At(in, (k + 10) % 16) + 1) % 256,
                        Xor8(At(exp_data, k), At(exp_data, 16 + ((7 * k) % 48)))),
        AES_BLOCK_SIZE)

\* the four finishers, in the order of the table extra_hashes
extra_hashes == <<"hash_extra_blake", "hash_extra_groestl", "hash_extra_jh", "hash_extra_skein">>

\* the digest a finisher leaves in hash
Digest(finisher, msg, len) == [finisher |-> finisher, msg |-> msg, len |-> len]

\* the random math, were it run for every variant
random_math_every_variant(a1_, c2_, r_, b_1st16, b_2nd16, variant_, code_) ==
  The({ [a1 |-> Block(XorBytes(U64(a1_, 0), Pack64(At(r2, 2), At(r2, 3)), 8),
                      XorBytes(U64(a1_, 1), Pack64(At(r2, 0), At(r2, 1)), 8)),
         c2 |-> Splice(c2_, 0,
                       XorBytes(U64(c2_, 0),
                                Pack64(AddBytes(At(r_, 0), At(r_, 1), 4),
                                       AddBytes(At(r_, 2), At(r_, 3), 4)), 8), 8),
         r |-> r2] :
        r2 \in { v4_random_math(code_, r1) :
                 r1 \in {Splice(r_, 4, << V4_REG_LOAD(a1_, 0), V4_REG_LOAD(a1_, 8),
                                           V4_REG_LOAD(b_1st16, 0),
                                           V4_REG_LOAD(b_2nd16, 0),
                                           V4_REG_LOAD(b_2nd16, 8) >>, 5)} } })

VARIANT4_RANDOM_MATH(a1_, c2_, r_, b_1st16, b_2nd16, variant_, code_) ==
  IF variant_ >= 4
  THEN The({ [a1 |-> Block(XorBytes(U64(a1_, 0), Pack64(At(r2, 2), At(r2, 3)), 8),
                           XorBytes(U64(a1_, 1), Pack64(At(r2, 0), At(r2, 1)), 8)),
              c2 |-> Splice(c2_, 0,
                            XorBytes(U64(c2_, 0),
                                     Pack64(AddBytes(At(r_, 0), At(r_, 1), 4),
                                            AddBytes(At(r_, 2), At(r_, 3), 4)), 8), 8),
              r |-> r2] :
             r2 \in { v4_random_math(code_, r1) :
                      r1 \in {Splice(r_, 4, << V4_REG_LOAD(a1_, 0), V4_REG_LOAD(a1_, 8),
                                                V4_REG_LOAD(b_1st16, 0),
                                                V4_REG_LOAD(b_2nd16, 0),
                                                V4_REG_LOAD(b_2nd16, 8) >>, 5)} } })
  ELSE [a1 |-> a1_, c2 |-> c2_, r |-> r_]

(***************************************************************************)
(* blake256.c.  A uint32_t is the array of its 4 bytes, low byte first;    *)
(* Word writes one from its hexadecimal digits, high byte first.           *)
(***************************************************************************)
Word(b3, b2, b1, b0) == <<b0, b1, b2, b3>>

\* uint32_to_bytes_be(value, bytes): the 4 bytes left in bytes
uint32_to_bytes_be(value) == <<At(value, 3), At(value, 2), At(value, 1), At(value, 0)>>

\* be_bytes_to_uint32(bytes)
be_bytes_to_uint32(bytes) == <<At(bytes, 3), At(bytes, 2), At(bytes, 1), At(bytes, 0)>>

sigma ==
  << << 0,  1,  2,  3,  4,  5,  6,  7,  8,  9, 10, 11, 12, 13, 14, 15>>,
     <<14, 10,  4,  8,  9, 15, 13,  6,  1, 12,  0,  2, 11,  7,  5,  3>>,
     <<11,  8, 12,  0,  5,  2, 15, 13, 10, 14,  3,  6,  7,  1,  9,  4>>,
     << 7,  9,  3,  1, 13, 12, 11, 14,  2,  6,  5, 10,  4,  0, 15,  8>>,
     << 9,  0,  5,  7,  2,  4, 10, 15, 14,  1, 11, 12,  6,  8,  3, 13>>,
     << 2, 12,  6, 10,  0, 11,  8,  3,  4, 13,  7,  5, 15, 14,  1,  9>>,
     <<12,  5,  1, 15, 14, 13,  4, 10,  0,  7,  6,  3,  9,  2,  8, 11>>,
     <<13, 11,  7, 14, 12,  1,  3,  9,  5,  0, 15,  4,  8,  6,  2, 10>>,
     << 6, 15, 14,  9, 11,  3,  0,  8, 12,  2, 13,  7,  1,  4, 10,  5>>,
     <<10,  2,  8,  4,  7,  6,  1,  5, 15, 11,  9, 14,  3, 12, 13,  0>>,
     << 0,  1,  2,  3,  4,  5,  6,  7,  8,  9, 10, 11, 12, 13, 14, 15>>,
     <<14, 10,  4,  8,  9, 15, 13,  6,  1, 12,  0,  2, 11,  7,  5,  3>>,
     <<11,  8, 12,  0,  5,  2, 15, 13, 10, 14,  3,  6,  7,  1,  9,  4>>,
     << 7,  9,  3,  1, 13, 12, 11, 14,  2,  6,  5, 10,  4,  0, 15,  8>> >>

cst ==
  << Word(36, 63, 106, 136), Word(133, 163, 8, 211), Word(19, 25, 138, 46),
     Word(3, 112, 115, 68), Word(164, 9, 56, 34), Word(41, 159, 49, 208),
     Word(8, 46, 250, 152), Word(236, 78, 108, 137), Word(69, 40, 33, 230),
     Word(56, 208, 19, 119), Word(190, 84, 102, 207), Word(52, 233, 12, 108),
     Word(192, 172, 41, 183), Word(201, 124, 80, 221), Word(63, 132, 213, 181),
     Word(181, 71, 9, 23) >>

\* the 64 bytes 0x80, 0, 0, ...
padding == <<128>> \o ZeroBytes(63)

\* ROT(x, n): the uint32_t x rotated right by n bits
ROT(x, n) == Rol32(x, 32 - n)

\* the four statements of one half of G: x is the message word XORed with
\* the constant, r1 and r2 are the two rotations
GHalf(v, a_, b_, c, d_, x, r1, r2) ==
  The({ The({ The({ The({ Splice(Splice(Splice(Splice(v, a_, <<va>>, 1), d_, <<vd>>, 1),
                                        c, <<vc>>, 1), b_, <<vb>>, 1) :
                          vb \in {ROT(XorBytes(At(v, b_), vc, 4), r2)} }) :
                    vc \in {AddBytes(At(v, c), vd, 4)} }) :
              vd \in {ROT(XorBytes(At(v, d_), va, 4), r1)} }) :
        va \in {AddBytes(At(v, a_), AddBytes(x, At(v, b_), 4), 4)} })

\* G(i, a, b, c, d, e): the value left in v
G(v, m, i_, a_, b_, c, d_, e) ==
  The({ GHalf(v1, a_, b_, c, d_,
              XorBytes(At(m, At(At(sigma, i_), e + 1)), At(cst, At(At(sigma, i_), e)), 4), 8, 7) :
        v1 \in {GHalf(v, a_, b_, c, d_,
                      XorBytes(At(m, At(At(sigma, i_), e)), At(cst, At(At(sigma, i_), e + 1)), 4),
                      16, 12)} })

\* the arguments of the eight G of a round
GArgs ==
  << <<0, 4, 8, 12, 0>>, <<1, 5, 9, 13, 2>>, <<2, 6, 10, 14, 4>>, <<3, 7, 11, 15, 6>>,
     <<3, 4, 9, 14, 14>>, <<2, 7, 8, 13, 12>>, <<0, 5, 10, 15, 8>>, <<1, 6, 11, 12, 10>> >>

\* round i_ of blake256_compress: the value left in v
BlakeRound(v, m, i_) ==
  Iterate(LAMBDA k, w : G(w, m, i_, At(At(GArgs, k), 0), At(At(GArgs, k), 1),
                          At(At(GArgs, k), 2), At(At(GArgs, k), 3), At(At(GArgs, k), 4)),
          0, 8, v)

\* v as blake256_compress initialises it
BlakeV(S_) ==
  Bytes(LAMBDA k : IF k < 8 THEN At(S_.h, k)
                   ELSE IF k < 12 THEN XorBytes(At(S_.s, k - 8), At(cst, k - 8), 4)
                   ELSE IF S_.nullt = 0
                        THEN XorBytes(At(cst, k - 8), At(S_.t, (k - 12) \div 2), 4)
                        ELSE At(cst, k - 8), 16)

\* blake256_compress(S, block): the value left in S; compressed is history,
\* the blocks compressed so far with the counter and nullt they were
\* compressed under
blake256_compress(S_, block) ==
  The({ [S_ EXCEPT !.h = Bytes(LAMBDA k : XorBytes(XorBytes(XorBytes(At(S_.h, k), At(v, k), 4),
                                                            At(v, k + 8), 4),
                                                   At(S_.s, k % 4), 4), 8),
                   !.compressed = Append(S_.compressed,
                                         [block |-> block, t |-> S_.t, nullt |-> S_.nullt])] :
        v \in { Iterate(LAMBDA r_, w : BlakeRound(w, m, r_), 0, 14, BlakeV(S_)) :
                m \in {Bytes(LAMBDA k : be_bytes_to_uint32(Slice(block, 4 * k, 4)), 16)} } })

\* blake256_init(S): the value left in S; buf is not written
blake256_init(S_) ==
  [S_ EXCEPT !.h = << Word(106, 9, 230, 103), Word(187, 103, 174, 133),
                      Word(60, 110, 243, 114), Word(165, 79, 245, 58),
                      Word(81, 14, 82, 127), Word(155, 5, 104, 140),
                      Word(31, 131, 217, 171), Word(91, 224, 205, 25) >>,
             !.t = Bytes(LAMBDA k : ZeroBytes(4), 2),
             !.buflen = 0, !.nullt = 0,
             !.s = Bytes(LAMBDA k : ZeroBytes(4), 4)]

\* S->t[0] += 512; if (S->t[0] == 0) S->t[1]++;
blake256_count(S_) ==
  The({ [S_ EXCEPT !.t = <<t0, IF t0 = ZeroBytes(4)
                               THEN AddBytes(At(S_.t, 1), FromNat(1, 4), 4)
                               ELSE At(S_.t, 1)>>] :
        t0 \in {AddBytes(At(S_.t, 0), FromNat(512, 4), 4)} })

\* lines 127-135 of blake256_update: the buffer is completed and compressed.
\* The value is S and how many bytes of data were taken
blake256_update_fill(S_, data_, datalen) ==
  IF S_.buflen \div 8 # 0 /\ datalen \div 8 >= 64 - (S_.buflen \div 8)
  THEN The({ [S |-> blake256_compress(blake256_count(S1), S1.buf),
              taken |-> 64 - (S_.buflen \div 8), left |-> 0] :
             S1 \in {[S_ EXCEPT !.buf = Splice(S_.buf, S_.buflen \div 8,
                                               Slice(data_, 0, 64 - (S_.buflen \div 8)),
                                               64 - (S_.buflen \div 8))]} })
  ELSE [S |-> S_, taken |-> 0, left |-> S_.buflen \div 8]

\* lines 137-143 of blake256_update: the whole blocks of data_ from byte off
\* on are compressed, blocks of them
blake256_update_blocks(S_, data_, off, blocks) ==
  Iterate(LAMBDA k, w : blake256_compress(blake256_count(w), Slice(data_, off + 64 * k, 64)),
          0, blocks, S_)

\* blake256_update(S, data, datalen): the value left in S; datalen is in bits
blake256_update(S_, data_, datalen) ==
  The({ The({ LET rest == (datalen - 8 * f.taken) % 512
                  done == f.taken + 64 * ((datalen - 8 * f.taken) \div 512)
              IN IF rest > 0
                 THEN [S2 EXCEPT !.buf = Splice(S2.buf, f.left, Slice(data_, done, rest \div 8),
                                                rest \div 8),
                                 !.buflen = f.left * 8 + rest]
                 ELSE [S2 EXCEPT !.buflen = 0] :
              S2 \in {blake256_update_blocks(f.S, data_, f.taken,
                                             (datalen - 8 * f.taken) \div 512)} }) :
        f \in {blake256_update_fill(S_, data_, datalen)} })

\* S->t[0] -= n
blake256_uncount(S_, n) ==
  [S_ EXCEPT !.t = <<SubBytes(At(S_.t, 0), FromNat(n, 4), 4), At(S_.t, 1)>>]

\* lines 154-158 of blake256_final_h: msglen
blake256_msglen(S_) ==
  The({ uint32_to_bytes_be(IF LessBytes(lo, FromNat(S_.buflen, 4), 4)
                           THEN AddBytes(At(S_.t, 1), FromNat(1, 4), 4)
                           ELSE At(S_.t, 1))
          \o uint32_to_bytes_be(lo) :
        lo \in {AddBytes(At(S_.t, 0), FromNat(S_.buflen, 4), 4)} })

\* the padding, were the case of one padding byte not told apart
blake256_pad_two_bytes(S_, pa, pb) ==
  IF S_.buflen < 440
  THEN The({ blake256_uncount(blake256_update(S1, <<pb>>, 8), 8) :
             S1 \in {blake256_update(
                       blake256_uncount([S_ EXCEPT !.nullt = IF S_.buflen = 0 THEN 1 ELSE @],
                                        440 - S_.buflen),
                       padding, 440 - S_.buflen)} })
  ELSE The({ The({ blake256_uncount(blake256_update([S2 EXCEPT !.nullt = 1], <<pb>>, 8), 8) :
                   S2 \in {blake256_update(blake256_uncount(S1, 440),
                                           Slice(padding, 1, 63), 440)} }) :
             S1 \in {blake256_update(blake256_uncount(S_, 512 - S_.buflen),
                                     padding, 512 - S_.buflen)} })

\* lines 160-177 of blake256_final_h: the padding up to the length
blake256_pad(S_, pa, pb) ==
  IF S_.buflen = 440
  THEN blake256_update(blake256_uncount(S_, 8), <<pa>>, 8)
  ELSE IF S_.buflen < 440
  THEN The({ blake256_uncount(blake256_update(S1, <<pb>>, 8), 8) :
             S1 \in {blake256_update(
                       blake256_uncount([S_ EXCEPT !.nullt = IF S_.buflen = 0 THEN 1 ELSE @],
                                        440 - S_.buflen),
                       padding, 440 - S_.buflen)} })
  ELSE The({ The({ blake256_uncount(blake256_update([S2 EXCEPT !.nullt = 1], <<pb>>, 8), 8) :
                   S2 \in {blake256_update(blake256_uncount(S1, 440),
                                           Slice(padding, 1, 63), 440)} }) :
             S1 \in {blake256_update(blake256_uncount(S_, 512 - S_.buflen),
                                     padding, 512 - S_.buflen)} })

\* blake256_final_h(S, digest, pa, pb): the values left in S and in digest
blake256_final_h(S_, pa, pb) ==
  The({ [S |-> S3,
         digest |-> uint32_to_bytes_be(At(S3.h, 0)) \o uint32_to_bytes_be(At(S3.h, 1))
                      \o uint32_to_bytes_be(At(S3.h, 2)) \o uint32_to_bytes_be(At(S3.h, 3))
                      \o uint32_to_bytes_be(At(S3.h, 4)) \o uint32_to_bytes_be(At(S3.h, 5))
                      \o uint32_to_bytes_be(At(S3.h, 6)) \o uint32_to_bytes_be(At(S3.h, 7))] :
        S3 \in { blake256_update(blake256_uncount(S1, 64), msglen, 64) :
                 S1 \in {blake256_pad(S_, pa, pb)},
                 msglen \in {blake256_msglen(S_)} } })

\* blake256_final(S, digest)
blake256_final(S_) == blake256_final_h(S_, 129, 1)

(***************************************************************************)
(* cn_slow_hash                                                            *)
(***************************************************************************)
VARIABLES
  data, length, variant, height,   \* the arguments of the call
  stack_room,      \* does the stack have room for the frame of cn_slow_hash
  pc,              \* where the call is
  long_state, state, text, a, a1, b, c1, c2, d, i, j, aes_key, aes_ctx,
  tweak1_2, division_result, sqrt_result, r, code,   \* the locals
  hash,            \* the caller's digest buffer
  stderr, exit_status,   \* what the process wrote to stderr; its exit status
  calls,           \* the number of calls of cn_slow_hash so far
  first,           \* history: what the first call left in its locals and in hash
  a_start, b_start,   \* history: a and b as the current iteration found them
  state_written,   \* history: state as the write-back of text left it
  blake_S, blake_in, blake_inlen, blake_out   \* blake256_hash: S, in, inlen and out

vars == << data, length, variant, height, stack_room, pc, long_state, state, text,
           a, a1, b, c1, c2, d, i, j, aes_key, aes_ctx, tweak1_2, division_result,
           sqrt_result, r, code, hash, stderr, exit_status, calls, first,
           a_start, b_start, state_written, blake_S, blake_in, blake_inlen,
           blake_out >>

\* the variables of blake256_hash
blake_vars == << blake_S, blake_in, blake_inlen, blake_out >>

\* what the automatic variable S of blake256_hash may hold before blake256_init
BlakeGarbage ==
  { [h |-> Bytes(LAMBDA k : Word(g, g, g, g), 8), s |-> Bytes(LAMBDA k : Word(g, g, g, g), 4),
     t |-> Bytes(LAMBDA k : Word(g, g, g, g), 2), buflen |-> g, nullt |-> g,
     buf |-> Bytes(LAMBDA k : g, 64), compressed |-> <<>>] : g \in {0, 170} }

\* blake256_hash is not running
BlakeIdle ==
  /\ blake_S = CHOOSE g \in BlakeGarbage : g.buflen = 0
  /\ blake_in = <<>> /\ blake_inlen = 0 /\ blake_out = <<>>

\* the input of n bytes
DataOf(n) == Bytes(LAMBDA k : (17 + 3 * k + n) % 256, n)

Lengths == {0, 42, 43, MaxLen}
Variants == 0..MaxVariant
Heights == {0, MaxHeight}

\* what the locals declared without an initialiser may hold on entry
Garbage ==
  { [r |-> Bytes(LAMBDA k : ZeroBytes(4), 9), code |-> <<>>, tweak1_2 |-> ZeroBytes(8)],
    [r |-> Bytes(LAMBDA k : <<k, 171, 205, 239>>, 9), code |-> v4_random_math_init(7),
     tweak1_2 |-> <<90, 90, 90, 90, 90, 90, 90, 90>>] }

\* the digest buffer before a finisher has written it
NoHash == [finisher |-> "none", msg |-> <<>>, len |-> 0]

\* what a call leaves in hash and in the locals it initialises
Computed ==
  [hash |-> hash, state |-> state, text |-> text, long_state |-> long_state, a |-> a,
   a1 |-> a1, b |-> b, c1 |-> c1, c2 |-> c2, d |-> d, i |-> i, j |-> j,
   division_result |-> division_result, sqrt_result |-> sqrt_result]

\* the number of rounds of the loops, within the bounds of the model
ExpandRounds == Min(MEMORY \div INIT_SIZE_BYTE, MaxExpand)
MainRounds == Min(ITER \div 2, MaxIter)

Init ==
  /\ length \in Lengths
  /\ data = DataOf(length)
  /\ variant \in Variants
  /\ height \in Heights
  /\ stack_room \in BOOLEAN
  /\ pc = "call"
  /\ long_state = <<>>
  /\ state = ZeroBytes(200)
  /\ text = ZeroBytes(INIT_SIZE_BYTE)
  /\ a = ZeroBlock /\ a1 = ZeroBlock /\ c1 = ZeroBlock /\ c2 = ZeroBlock /\ d = ZeroBlock
  /\ b = ZeroBytes(2 * AES_BLOCK_SIZE)
  /\ i = 0 /\ j = 0
  /\ aes_key = ZeroBytes(AES_KEY_SIZE)
  /\ aes_ctx = <<>>
  /\ \E g \in Garbage : r = g.r /\ code = g.code /\ tweak1_2 = g.tweak1_2
  /\ division_result = ZeroBytes(8) /\ sqrt_result = ZeroBytes(8)
  /\ hash = NoHash
  /\ stderr = <<>> /\ exit_status = -1
  /\ calls = 1
  /\ first = [hash |-> NoHash]
  /\ a_start = ZeroBlock /\ b_start = ZeroBytes(2 * AES_BLOCK_SIZE)
  /\ state_written = ZeroBytes(200)
  /\ BlakeIdle

\* lines 370-389: the frame, whose 2 MiB long_state lies on the stack, the
\* zeroed locals, Keccak, text and the AES key.  Without room on the stack the
\* behaviour is undefined: the process dies of SIGSEGV on touching the frame,
\* or the frame lands on other memory and the call goes on
Call ==
  /\ pc = "call"
  /\ \E outcome \in (IF stack_room THEN {"run"} ELSE {"run", "segv"}) :
       pc' = IF outcome = "segv" THEN "segv" ELSE "variant_init"
  /\ long_state' = <<>>
  /\ state' = keccak1600(data, length)
  /\ text' = Slice(state', 64, INIT_SIZE_BYTE)
  /\ aes_key' = Slice(state', 0, AES_KEY_SIZE)
  /\ aes_ctx' = <<>>
  /\ a' = ZeroBlock /\ a1' = ZeroBlock /\ c1' = ZeroBlock /\ c2' = ZeroBlock /\ d' = ZeroBlock
  /\ b' = ZeroBytes(2 * AES_BLOCK_SIZE)
  /\ UNCHANGED << data, length, variant, height, stack_room, i, j, tweak1_2,
                  division_result, sqrt_result, r, code, hash, stderr, exit_status,
                  calls, first, a_start, b_start, state_written >>
  /\ UNCHANGED blake_vars

\* VARIANT2_PORTABLE_INIT: the value left in b
variant2_init_b(b_, state_, variant_) ==
  IF variant_ >= 2
  THEN LET b1 == Splice(b_, AES_BLOCK_SIZE, Slice(state_, 64, AES_BLOCK_SIZE), AES_BLOCK_SIZE)
           b2 == Splice(b1, AES_BLOCK_SIZE,
                        xor64(Slice(b1, AES_BLOCK_SIZE, 8), Slice(state_, 80, 8)), 8)
       IN Splice(b2, AES_BLOCK_SIZE + 8,
                 xor64(Slice(b2, AES_BLOCK_SIZE + 8, 8), Slice(state_, 88, 8)), 8)
  ELSE b_

\* r as the declaration leaves it, were VARIANT4_RANDOM_MATH_INIT not to load it
r_not_loaded(r_, state_, variant_) == r_

\* VARIANT4_RANDOM_MATH_INIT: the value left in r
variant4_init_r(r_, state_, variant_) ==
  IF variant_ >= 4
  THEN Splice(r_, 0, << V4_REG_LOAD(state_, 96), V4_REG_LOAD(state_, 100),
                        V4_REG_LOAD(state_, 104), V4_REG_LOAD(state_, 108) >>, 4)
  ELSE r_

\* the check of the length, were it made for every variant from 1 on
check_from_variant1_on(variant_, length_) == variant_ >= 1 /\ length_ < 43

\* must the call stop at VARIANT1_CHECK
variant1_check_fails(variant_, length_) == variant_ = 1 /\ length_ < 43

\* lines 391-432: the inits of the variants and the first AES key
VariantInit ==
  /\ pc = "variant_init"
  /\ IF variant1_check_fails(variant, length)
     THEN /\ stderr' = Append(stderr, "Cryptonight variant 1 needs at least 43 bytes of data")
          /\ exit_status' = 1
          /\ pc' = "exited"
          /\ UNCHANGED << tweak1_2, b, division_result, sqrt_result, r, code, aes_ctx, i >>
     ELSE /\ tweak1_2' = IF variant = 1
                         THEN xor64(Slice(state, 192, 8), Slice(data, 35, 8))
                         ELSE tweak1_2
          /\ b' = variant2_init_b(b, state, variant)
          /\ division_result' = IF variant >= 2 THEN Slice(state, 8 * 12, 8) ELSE ZeroBytes(8)
          /\ sqrt_result' = IF variant >= 2 THEN Slice(state, 8 * 13, 8) ELSE ZeroBytes(8)
          /\ r' = variant4_init_r(r, state, variant)
          /\ code' = IF variant >= 4 THEN v4_random_math_init(height) ELSE code
          /\ aes_ctx' = oaes_key_import_data(aes_key)
          /\ i' = 0
          /\ pc' = "expand"
          /\ UNCHANGED << stderr, exit_status >>
  /\ UNCHANGED << data, length, variant, height, stack_room, long_state, state, text,
                  a, a1, c1, c2, d, j, aes_key, hash, calls, first, a_start,
                  b_start, state_written >>
  /\ UNCHANGED blake_vars

\* the 8 blocks of text_, each after fn
MapBlocks(fn(_, _), text_) ==
  Iterate(LAMBDA k, t : Splice(t, AES_BLOCK_SIZE * k,
                               fn(k, Slice(t, AES_BLOCK_SIZE * k, AES_BLOCK_SIZE)),
                               AES_BLOCK_SIZE),
          0, INIT_SIZE_BLK, text_)

\* memcpy(&long_state[off], text, INIT_SIZE_BYTE)
WriteText(long_state_, off, text_) ==
  Iterate(LAMBDA k, ls : WriteBlock(ls, off + AES_BLOCK_SIZE * k,
                                    Slice(text_, AES_BLOCK_SIZE * k, AES_BLOCK_SIZE)),
          0, INIT_SIZE_BLK, long_state_)

\* lines 433-438: one round of the expansion of the scratchpad
ExpandStep ==
  /\ pc = "expand"
  /\ i < ExpandRounds
  /\ text' = MapBlocks(LAMBDA k, blk : aesb_pseudo_round(blk, aes_ctx), text)
  /\ long_state' = WriteText(long_state, i * INIT_SIZE_BYTE, text')
  /\ j' = INIT_SIZE_BLK
  /\ i' = i + 1
  /\ pc' = IF i + 1 < ExpandRounds THEN "expand" ELSE "reg_init"
  /\ UNCHANGED << data, length, variant, height, stack_room, state, a, a1, b, c1, c2, d,
                  aes_key, aes_ctx, tweak1_2, division_result, sqrt_result, r, code,
                  hash, stderr, exit_status, calls, first, a_start, b_start,
                  state_written >>
  /\ UNCHANGED blake_vars

\* lines 440-443: a and the first half of b
RegInit ==
  /\ pc = "reg_init"
  /\ a' = XorBytes(Slice(state, 0, AES_BLOCK_SIZE), Slice(state, 2 * AES_BLOCK_SIZE, AES_BLOCK_SIZE),
                   AES_BLOCK_SIZE)
  /\ b' = Splice(b, 0, XorBytes(Slice(state, AES_BLOCK_SIZE, AES_BLOCK_SIZE),
                                Slice(state, 3 * AES_BLOCK_SIZE, AES_BLOCK_SIZE),
                                AES_BLOCK_SIZE), AES_BLOCK_SIZE)
  /\ i' = 0
  /\ pc' = "iter1"
  /\ UNCHANGED << data, length, variant, height, stack_room, long_state, state, text,
                  a1, c1, c2, d, j, aes_key, aes_ctx, tweak1_2, division_result,
                  sqrt_result, r, code, hash, stderr, exit_status, calls, first,
                  a_start, b_start, state_written >>
  /\ UNCHANGED blake_vars

\* the condition of the assert, were j an index of blocks
assert_j_as_index(j_, a_) == j_ = e2i(a_, MEMORY \div AES_BLOCK_SIZE)

\* line 466: the condition of the assert
assert_j(j_, a_) == j_ = e2i(a_, MEMORY \div AES_BLOCK_SIZE) * AES_BLOCK_SIZE

\* lines 453-467, "Iteration 1" of a round of the main loop; a failing assert
\* aborts the process
Iter1 ==
  /\ pc = "iter1"
  /\ \E j0 \in {e2i(a, MEMORY \div AES_BLOCK_SIZE) * AES_BLOCK_SIZE} :
     \E c1a \in {aesb_single_round(copy_block(ReadBlock(long_state, j0)), a)} :
     \E sh \in {variant2_portable_shuffle_add(c1a, a, b, long_state, j0, variant)} :
     \E ls \in {WriteBlock(sh.long_state, j0,
                           xor_blocks(copy_block(sh.out), Slice(b, 0, AES_BLOCK_SIZE)))} :
       /\ j' = j0
       /\ c1' = sh.out
       /\ IF assert_j(j0, a)
          THEN /\ long_state' = WriteBlock(ls, j0, VARIANT1_1(ReadBlock(ls, j0), variant))
               /\ pc' = "iter2"
          ELSE /\ long_state' = ls
               /\ pc' = "aborted"
  /\ a_start' = a
  /\ b_start' = b
  /\ UNCHANGED << data, length, variant, height, stack_room, state, text, a, a1, b, c2, d,
                  i, aes_key, aes_ctx, tweak1_2, division_result, sqrt_result, r, code,
                  hash, stderr, exit_status, calls, first, state_written >>
  /\ UNCHANGED blake_vars

\* the two copies into b in the other order
rotate_b_c1_first(b_, c1_, variant_) ==
  IF variant_ >= 2
  THEN Splice(Splice(b_, 0, copy_block(c1_), AES_BLOCK_SIZE),
              AES_BLOCK_SIZE, copy_block(c1_), AES_BLOCK_SIZE)
  ELSE Splice(b_, 0, copy_block(c1_), AES_BLOCK_SIZE)

\* the copy into the second half of b made for every variant
rotate_b_every_variant(b_, c1_, variant_) ==
  Splice(Splice(b_, AES_BLOCK_SIZE, copy_block(Slice(b_, 0, AES_BLOCK_SIZE)), AES_BLOCK_SIZE),
         0, copy_block(c1_), AES_BLOCK_SIZE)

\* lines 489-492: the value left in b
rotate_b(b_, c1_, variant_) ==
  Splice(IF variant_ >= 2
         THEN Splice(b_, AES_BLOCK_SIZE, copy_block(Slice(b_, 0, AES_BLOCK_SIZE)),
                     AES_BLOCK_SIZE)
         ELSE b_,
         0, copy_block(c1_), AES_BLOCK_SIZE)

\* lines 478-481, VARIANT2_2_PORTABLE: the values left in long_state and d
variant2_2_portable(long_state_, d_, j_, variant_) ==
  IF variant_ = 2 \/ variant_ = 3
  THEN The({ [long_state |-> ls, d |-> xor_blocks(d_, ReadBlock(ls, XorBits(j_, 32, 22)))] :
             ls \in {WriteBlock(long_state_, XorBits(j_, 16, 22),
                                xor_blocks(ReadBlock(long_state_, XorBits(j_, 16, 22)), d_))} })
  ELSE [long_state |-> long_state_, d |-> d_]

\* lines 470-493, "Iteration 2" of a round of the main loop; a division by
\* zero in variant2_integer_math ends the process with SIGFPE
Iter2 ==
  /\ pc = "iter2"
  /\ \E j1 \in {e2i(c1, MEMORY \div AES_BLOCK_SIZE) * AES_BLOCK_SIZE} :
     \E im \in {variant2_integer_math(copy_block(ReadBlock(long_state, j1)), c1,
                                      division_result, sqrt_result, variant)} :
     \E rm \in {VARIANT4_RANDOM_MATH(copy_block(a), im.c1, r, Slice(b, 0, AES_BLOCK_SIZE),
                                     Slice(b, AES_BLOCK_SIZE, AES_BLOCK_SIZE), variant, code)} :
     \E v2 \in {variant2_2_portable(long_state, mul(c1, rm.c2), j1, variant)} :
     \E sh \in {variant2_portable_shuffle_add(c1, a, b, v2.long_state, j1, variant)} :
     \E sw \in {swap_blocks(sum_half_blocks(rm.a1, v2.d), rm.c2)} :
     \E a1n \in {xor_blocks(sw.fst, sw.snd)} :
     \E c2n \in {Splice(sw.snd, 8, VARIANT1_2(Slice(sw.snd, 8, 8), tweak1_2, variant), 8)} :
       /\ j' = j1
       /\ division_result' = im.division_result
       /\ sqrt_result' = im.sqrt_result
       /\ r' = rm.r
       /\ d' = v2.d
       /\ c1' = sh.out
       /\ a1' = a1n
       /\ c2' = c2n
       /\ long_state' = WriteBlock(sh.long_state, j1, copy_block(c2n))
       /\ b' = rotate_b(b, sh.out, variant)
       /\ a' = copy_block(a1n)
       /\ pc' = IF im.fault THEN "sigfpe"
                ELSE IF i + 1 < MainRounds THEN "iter1" ELSE "absorb_init"
  /\ i' = i + 1
  /\ UNCHANGED << data, length, variant, height, stack_room, state, text, aes_key,
                  aes_ctx, tweak1_2, code, hash, stderr, exit_status, calls, first,
                  a_start, b_start, state_written >>
  /\ UNCHANGED blake_vars

\* lines 499-500: text and the second AES key
AbsorbInit ==
  /\ pc = "absorb_init"
  /\ text' = Slice(state, 64, INIT_SIZE_BYTE)
  /\ aes_ctx' = oaes_key_import_data(Slice(state, 32, AES_KEY_SIZE))
  /\ i' = 0
  /\ pc' = "absorb"
  /\ UNCHANGED << data, length, variant, height, stack_room, long_state, state, a, a1, b,
                  c1, c2, d, j, aes_key, tweak1_2, division_result, sqrt_result, r, code,
                  hash, stderr, exit_status, calls, first, a_start, b_start,
                  state_written >>
  /\ UNCHANGED blake_vars

\* lines 501-506: one round of the absorption of the scratchpad
AbsorbStep ==
  /\ pc = "absorb"
  /\ i < ExpandRounds
  /\ text' = MapBlocks(LAMBDA k, blk :
                         aesb_pseudo_round(
                           xor_blocks(blk, ReadBlock(long_state,
                                                     i * INIT_SIZE_BYTE + k * AES_BLOCK_SIZE)),
                           aes_ctx), text)
  /\ j' = INIT_SIZE_BLK
  /\ i' = i + 1
  /\ pc' = IF i + 1 < ExpandRounds THEN "absorb" ELSE "write_back"
  /\ UNCHANGED << data, length, variant, height, stack_room, long_state, state, a, a1, b,
                  c1, c2, d, aes_key, aes_ctx, tweak1_2, division_result, sqrt_result, r,
                  code, hash, stderr, exit_status, calls, first, a_start, b_start,
                  state_written >>
  /\ UNCHANGED blake_vars

\* line 507: memcpy(state.init, text, INIT_SIZE_BYTE)
WriteBack ==
  /\ pc = "write_back"
  /\ state' = Splice(state, 64, text, INIT_SIZE_BYTE)
  /\ state_written' = state'
  /\ pc' = "permute"
  /\ UNCHANGED << data, length, variant, height, stack_room, long_state, text, a, a1, b,
                  c1, c2, d, i, j, aes_key, aes_ctx, tweak1_2, division_result,
                  sqrt_result, r, code, hash, stderr, exit_status, calls, first,
                  a_start, b_start >>
  /\ UNCHANGED blake_vars

\* line 508: hash_permutation(&state.hs)
Permute ==
  /\ pc = "permute"
  /\ state' = hash_permutation(state)
  /\ pc' = "finish"
  /\ UNCHANGED << data, length, variant, height, stack_room, long_state, text, a, a1, b,
                  c1, c2, d, i, j, aes_key, aes_ctx, tweak1_2, division_result,
                  sqrt_result, r, code, hash, stderr, exit_status, calls, first,
                  a_start, b_start, state_written >>
  /\ UNCHANGED blake_vars

\* the finisher chosen by the state as the write-back left it, before the
\* permutation
finish_chosen_early(state_) ==
  Digest(At(extra_hashes, And8(At(state_written, 0), 3)), state_, 200)

\* line 510: the digest the chosen finisher leaves in hash
finish(state_) == Digest(At(extra_hashes, And8(At(state_, 0), 3)), state_, 200)

\* lines 510-512: the finisher, oaes_free and the return
Finish ==
  /\ pc = "finish"
  /\ hash' = finish(state)
  /\ aes_ctx' = <<>>
  /\ first' = IF calls = 1 THEN [Computed EXCEPT !.hash = hash'] ELSE first
  /\ pc' = "returned"
  /\ UNCHANGED << data, length, variant, height, stack_room, long_state, state, text, a,
                  a1, b, c1, c2, d, i, j, aes_key, tweak1_2, division_result,
                  sqrt_result, r, code, stderr, exit_status, calls, a_start, b_start,
                  state_written >>
  /\ UNCHANGED blake_vars

\* the caller calls cn_slow_hash again, with the same arguments and a fresh
\* digest buffer; the stack holds what the call before left there, or what
\* other calls made in between left there
Again ==
  /\ pc = "returned"
  /\ calls < MaxCalls
  /\ calls' = calls + 1
  /\ hash' = NoHash
  /\ \E g \in Garbage \cup {[r |-> r, code |-> code, tweak1_2 |-> tweak1_2]} :
       r' = g.r /\ code' = g.code /\ tweak1_2' = g.tweak1_2
  /\ pc' = "call"
  /\ UNCHANGED << data, length, variant, height, stack_room, long_state, state, text, a,
                  a1, b, c1, c2, d, i, j, aes_key, aes_ctx, division_result,
                  sqrt_result, stderr, exit_status, first, a_start, b_start,
                  state_written >>
  /\ UNCHANGED blake_vars

Next ==
  \/ Call
  \/ VariantInit
  \/ ExpandStep
  \/ RegInit
  \/ Iter1
  \/ Iter2
  \/ AbsorbInit
  \/ AbsorbStep
  \/ WriteBack
  \/ Permute
  \/ Finish
  \/ Again

Spec == Init /\ [][Next]_vars

(***************************************************************************)
(* Two calls of cn_slow_hash that differ in height alone                   *)
(***************************************************************************)
\* the caller calls cn_slow_hash again, with the same data, length and
\* variant and with the other height of Heights; the stack holds what the call
\* before left there, or what other calls made in between left there
AgainOtherHeight ==
  /\ pc = "returned"
  /\ calls < MaxCalls
  /\ calls' = calls + 1
  /\ hash' = NoHash
  /\ height' \in Heights \ {height}
  /\ \E g \in Garbage \cup {[r |-> r, code |-> code, tweak1_2 |-> tweak1_2]} :
       r' = g.r /\ code' = g.code /\ tweak1_2' = g.tweak1_2
  /\ pc' = "call"
  /\ UNCHANGED << data, length, variant, stack_room, long_state, state, text, a,
                  a1, b, c1, c2, d, i, j, aes_key, aes_ctx, division_result,
                  sqrt_result, stderr, exit_status, first, a_start, b_start,
                  state_written >>
  /\ UNCHANGED blake_vars

NextHeights ==
  \/ Call
  \/ VariantInit
  \/ ExpandStep
  \/ RegInit
  \/ Iter1
  \/ Iter2
  \/ AbsorbInit
  \/ AbsorbStep
  \/ WriteBack
  \/ Permute
  \/ Finish
  \/ AgainOtherHeight

SpecHeights == Init /\ [][NextHeights]_vars

(***************************************************************************)
(* variant2_portable_shuffle_add on its own: one call on drawn arguments   *)
(***************************************************************************)
\* a block of sixteen bytes x, x + step, x + 2 * step, ...
Ramp(x, step) == Bytes(LAMBDA k : (x + step * k) % 256, AES_BLOCK_SIZE)

ShuffleBlocks == {ZeroBlock, Ramp(255, 0), Ramp(3, 17)}
ShuffleOffsets == {0, 16, 4128, MEMORY - AES_BLOCK_SIZE}

\* scratchpads with the four blocks around offset and a block elsewhere written
ShuffleMemories(offset) ==
  { [o \in {offset, XorBits(offset, 16, 22), XorBits(offset, 32, 22),
            XorBits(offset, 48, 22), XorBits(offset, 64, 22)} |->
       Ramp(seed + ((o \div AES_BLOCK_SIZE) % 4), seed)] : seed \in {7, 255} }

\* the locals and history that a call of a helper on its own leaves alone
HelperIdle ==
  /\ length = 0 /\ data = <<>> /\ height = 0 /\ stack_room = TRUE
  /\ state = ZeroBytes(200) /\ text = ZeroBytes(INIT_SIZE_BYTE)
  /\ a1 = ZeroBlock /\ d = ZeroBlock
  /\ i = 0
  /\ aes_key = ZeroBytes(AES_KEY_SIZE) /\ aes_ctx = <<>>
  /\ tweak1_2 = ZeroBytes(8)
  /\ r = Bytes(LAMBDA k : ZeroBytes(4), 9) /\ code = <<>>
  /\ hash = NoHash /\ stderr = <<>> /\ exit_status = -1
  /\ calls = 1 /\ first = [hash |-> NoHash]
  /\ a_start = ZeroBlock /\ b_start = ZeroBytes(2 * AES_BLOCK_SIZE)
  /\ state_written = ZeroBytes(200)
  /\ BlakeIdle

ShuffleInit ==
  /\ variant \in Variants
  /\ a \in ShuffleBlocks
  /\ b \in {Ramp(1, 1) \o Ramp(200, 9), Ramp(255, 0) \o Ramp(0, 0)}
  /\ c1 \in {ZeroBlock, Ramp(9, 31)}
  /\ j \in ShuffleOffsets
  /\ long_state \in ShuffleMemories(j)
  /\ c2 = ZeroBlock
  /\ division_result = ZeroBytes(8) /\ sqrt_result = ZeroBytes(8)
  /\ pc = "shuffle"
  /\ HelperIdle

\* variant2_portable_shuffle_add(c1, a, b, long_state, j, variant)
ShuffleCall ==
  /\ pc = "shuffle"
  /\ \E sh \in {variant2_portable_shuffle_add(c1, a, b, long_state, j, variant)} :
       c1' = sh.out /\ long_state' = sh.long_state
  /\ pc' = "shuffled"
  /\ UNCHANGED << data, length, variant, height, stack_room, state, text, a, a1, b, c2, d,
                  i, j, aes_key, aes_ctx, tweak1_2, division_result, sqrt_result, r,
                  code, hash, stderr, exit_status, calls, first, a_start, b_start,
                  state_written >>
  /\ UNCHANGED blake_vars

SpecShuffle == ShuffleInit /\ [][ShuffleCall]_vars

(***************************************************************************)
(* variant2_integer_math on its own: one call on drawn arguments, called   *)
(* as the main loop calls it, variant2_integer_math(c2, c1, ...)           *)
(***************************************************************************)
\* the words drawn for word 0 of c1, from which the divisor comes and, with a
\* dividend of zero, sqrt_input; the last one is 6948590619952657196, whose
\* floating-point estimate 1488822215 is one too large
MathWords ==
  { ZeroBytes(8), <<255, 255, 255, 255, 255, 255, 255, 255>>,
    <<255, 255, 255, 127, 0, 0, 0, 0>>, <<1, 0, 0, 128, 254, 255, 255, 255>>,
    <<57, 48, 0, 0, 0, 0, 0, 0>>, <<21, 205, 91, 7, 177, 104, 222, 58>>,
    <<44, 179, 227, 135, 90, 90, 110, 96>> }

\* the words drawn for word 1 of c1, the dividend
MathDividends ==
  { ZeroBytes(8), <<255, 255, 255, 255, 255, 255, 255, 255>>,
    <<1, 0, 0, 128, 254, 255, 255, 255>>, <<21, 205, 91, 7, 177, 104, 222, 58>> }

MathInit ==
  /\ variant \in Variants
  /\ \E w0 \in MathWords, w1 \in MathDividends : c1 = Block(w0, w1)
  /\ c2 = Ramp(3, 17)
  /\ division_result \in {ZeroBytes(8), <<21, 205, 91, 7, 177, 104, 222, 58>>}
  /\ sqrt_result \in {ZeroBytes(8), <<1, 0, 0, 128, 0, 0, 0, 0>>,
                      <<255, 255, 255, 255, 0, 0, 0, 0>>}
  /\ a = ZeroBlock /\ b = ZeroBytes(2 * AES_BLOCK_SIZE)
  /\ j = 0 /\ long_state = <<>>
  /\ pc = "math"
  /\ HelperIdle

\* variant2_integer_math(c2, c1, &division_result, &sqrt_result, variant)
MathCall ==
  /\ pc = "math"
  /\ \E im \in {variant2_integer_math(c2, c1, division_result, sqrt_result, variant)} :
       /\ c2' = im.c1
       /\ division_result' = im.division_result
       /\ sqrt_result' = im.sqrt_result
       /\ pc' = IF im.fault THEN "sigfpe" ELSE "math_done"
  /\ UNCHANGED << data, length, variant, height, stack_room, long_state, state, text, a,
                  a1, b, c1, d, i, j, aes_key, aes_ctx, tweak1_2, r, code, hash, stderr,
                  exit_status, calls, first, a_start, b_start, state_written >>
  /\ UNCHANGED blake_vars

SpecMath == MathInit /\ [][MathCall]_vars

(***************************************************************************)
(* blake256_hash on its own: init, one update with the whole message,      *)
(* final                                                                   *)
(***************************************************************************)
\* the lengths drawn for the message: those up to MaxInlen that lie around
\* the edges of a block and of the room left for the padding
Inlens == {n \in 0..MaxInlen : n % 64 \in {0, 1, 8, 32, 54, 55, 56, 62, 63}}

\* the message of n bytes
BlakeMessage(n) == Bytes(LAMBDA k : (7 * k + n) % 256, n)

BlakeInit ==
  /\ blake_inlen \in Inlens
  /\ blake_in = BlakeMessage(blake_inlen)
  /\ blake_S \in BlakeGarbage
  /\ blake_out = <<>>
  /\ variant = 0
  /\ a = ZeroBlock /\ b = ZeroBytes(2 * AES_BLOCK_SIZE)
  /\ c1 = ZeroBlock /\ c2 = ZeroBlock
  /\ j = 0 /\ long_state = <<>>
  /\ division_result = ZeroBytes(8) /\ sqrt_result = ZeroBytes(8)
  /\ pc = "blake256_hash"
  /\ length = 0 /\ data = <<>> /\ height = 0 /\ stack_room = TRUE
  /\ state = ZeroBytes(200) /\ text = ZeroBytes(INIT_SIZE_BYTE)
  /\ a1 = ZeroBlock /\ d = ZeroBlock
  /\ i = 0
  /\ aes_key = ZeroBytes(AES_KEY_SIZE) /\ aes_ctx = <<>>
  /\ tweak1_2 = ZeroBytes(8)
  /\ r = Bytes(LAMBDA k : ZeroBytes(4), 9) /\ code = <<>>
  /\ hash = NoHash /\ stderr = <<>> /\ exit_status = -1
  /\ calls = 1 /\ first = [hash |-> NoHash]
  /\ a_start = ZeroBlock /\ b_start = ZeroBytes(2 * AES_BLOCK_SIZE)
  /\ state_written = ZeroBytes(200)

\* line 198: blake256_init(&S)
BlakeHashInit ==
  /\ pc = "blake256_hash"
  /\ blake_S' = blake256_init(blake_S)
  /\ pc' = "blake256_update"
  /\ UNCHANGED << blake_in, blake_inlen, blake_out >>
  /\ UNCHANGED << data, length, variant, height, stack_room, long_state, state, text, a,
                  a1, b, c1, c2, d, i, j, aes_key, aes_ctx, tweak1_2, division_result,
                  sqrt_result, r, code, hash, stderr, exit_status, calls, first, a_start,
                  b_start, state_written >>

\* line 199: blake256_update(&S, in, inlen * 8)
BlakeHashUpdate ==
  /\ pc = "blake256_update"
  /\ blake_S' = blake256_update(blake_S, blake_in, blake_inlen * 8)
  /\ pc' = "blake256_final"
  /\ UNCHANGED << blake_in, blake_inlen, blake_out >>
  /\ UNCHANGED << data, length, variant, height, stack_room, long_state, state, text, a,
                  a1, b, c1, c2, d, i, j, aes_key, aes_ctx, tweak1_2, division_result,
                  sqrt_result, r, code, hash, stderr, exit_status, calls, first, a_start,
                  b_start, state_written >>

\* line 200: blake256_final(&S, out)
BlakeHashFinal ==
  /\ pc = "blake256_final"
  /\ \E f \in {blake256_final(blake_S)} :
       blake_S' = f.S /\ blake_out' = f.digest
  /\ pc' = "blake256_done"
  /\ UNCHANGED << blake_in, blake_inlen >>
  /\ UNCHANGED << data, length, variant, height, stack_room, long_state, state, text, a,
                  a1, b, c1, c2, d, i, j, aes_key, aes_ctx, tweak1_2, division_result,
                  sqrt_result, r, code, hash, stderr, exit_status, calls, first, a_start,
                  b_start, state_written >>

BlakeNext ==
  \/ BlakeHashInit
  \/ BlakeHashUpdate
  \/ BlakeHashFinal

SpecBlake == BlakeInit /\ [][BlakeNext]_vars

(***************************************************************************)
(* Properties                                                              *)
(***************************************************************************)
\* C1: with variant 1 a call on fewer than 43 bytes of data ends the process
\* at the check: it has written a diagnostic and left with status 1, no digest
\* was written and not one block of the scratchpad was expanded; such a call
\* never gets past the inits, and the process takes no step after its exit.
\* Every other call, variant 1 on 43 bytes or more and any other variant on
\* any length, passes the check and goes on to the expansion, and a call that
\* returns has written a digest.
C1_Variant1NeedsNonce ==
  /\ [](pc = "exited" =>
          /\ variant = 1 /\ length < 43
          /\ exit_status = 1 /\ stderr # <<>>
          /\ hash = NoHash
          /\ DOMAIN long_state = {})
  /\ [](variant = 1 /\ length < 43 => pc \in {"call", "variant_init", "exited", "segv"})
  /\ [](pc = "returned" => hash # NoHash /\ exit_status = -1 /\ stderr = <<>>)
  /\ [][/\ pc # "exited"
        /\ pc = "variant_init" =>
             pc' = IF variant = 1 /\ length < 43 THEN "exited" ELSE "expand"]_vars

\* a call of variant 1 on 42 bytes has ended the process
C1_Exited ==
  pc = "exited" /\ variant = 1 /\ length = 42 /\ exit_status = 1 /\ hash = NoHash

\* C2: in the main loop j is a multiple of 16 between 0 and 2^21 - 16, and so
\* are j ^ 0x10, j ^ 0x20 and j ^ 0x30; every block the call has written to
\* the scratchpad lies at such an offset.
C2_OffsetsInScratchpad ==
  /\ \A off \in DOMAIN long_state :
       off % 16 = 0 /\ 0 <= off /\ off <= Pow2(21) - 16
  /\ (pc = "iter2" \/ (pc \in {"iter1", "absorb_init", "sigfpe"} /\ i > 0)) =>
       \A x \in {0, 16, 32, 48} :
         /\ XorBits(j, x, 24) % 16 = 0
         /\ 0 <= XorBits(j, x, 24)
         /\ XorBits(j, x, 24) <= Pow2(21) - 16

\* the second half of a round has shuffled the blocks around a j other than 0
C2_Shuffled ==
  /\ pc \in {"iter1", "absorb_init"} /\ i > 0 /\ variant >= 2
  /\ j >= MaxExpand * INIT_SIZE_BYTE
  /\ {XorBits(j, 16, 24), XorBits(j, 32, 24), XorBits(j, 48, 24)} \subseteq DOMAIN long_state

\* C3: a call for which the scratchpad cannot be had hands an allocation error
\* to its caller: the process is not killed, and the call goes no further than
\* its entry.
C3_AllocationFailureSurfaced ==
  ~stack_room =>
    /\ pc # "segv"
    /\ pc \notin {"variant_init", "expand", "reg_init", "iter1", "iter2", "absorb_init",
                  "absorb", "write_back", "permute", "finish", "returned"}

\* C4: the digest is that of the finisher numbered by the two low bits of the
\* first byte of the state, 0 BLAKE-256, 1 Groestl, 2 JH, 3 Skein, over all 200
\* bytes of the state, where the state is the one the permutation left after
\* text had been written back to its bytes 64..191.
C4_FinisherAfterPermutation ==
  pc = "returned" =>
    /\ Slice(state_written, 64, 128) = text
    /\ state = hash_permutation(state_written)
    /\ hash = [finisher |-> CASE At(state, 0) % 4 = 0 -> "hash_extra_blake"
                              [] At(state, 0) % 4 = 1 -> "hash_extra_groestl"
                              [] At(state, 0) % 4 = 2 -> "hash_extra_jh"
                              [] At(state, 0) % 4 = 3 -> "hash_extra_skein",
               msg |-> state, len |-> 200]

\* a call has returned whose state chose another finisher before the
\* permutation than after it
C4_SelectorChanged ==
  /\ pc = "returned"
  /\ At(state_written, 0) % 4 # At(state, 0) % 4
  /\ Slice(state_written, 64, 128) # Slice(keccak1600(data, length), 64, 128)

\* C5: a later call with the same arguments leaves the digest of the first
\* call, and everything else it computes, whatever the stack held on entry.
C5_SameInputSameDigest ==
  pc = "returned" /\ calls > 1 => Computed = first

\* a second call of variant 4 has returned, entered with a stack not zeroed
C5_SecondCallReturned ==
  /\ pc = "returned" /\ calls > 1 /\ variant >= 4
  /\ tweak1_2 # ZeroBytes(8)
  /\ hash = first.hash /\ hash # NoHash

\* C6: for variant 2 and above the shuffle leaves at j ^ 0x10 the old block at
\* j ^ 0x30 plus b[16..32], at j ^ 0x30 the old block at j ^ 0x20 plus a, at
\* j ^ 0x20 the old block at j ^ 0x10 plus b[0..16], each sum being two
\* independent 64-bit sums that wrap around; no other block changes; for
\* variant 4 and above the three old blocks are XORed into out, which is left
\* alone for variants 2 and 3.
C6_ShuffleAddReference ==
  [][pc = "shuffle" /\ variant >= 2 =>
       LET o1 == XorBits(j, 16, 24)
           o2 == XorBits(j, 32, 24)
           o3 == XorBits(j, 48, 24)
           old1 == ReadBlock(long_state, o1)
           old2 == ReadBlock(long_state, o2)
           old3 == ReadBlock(long_state, o3)
       IN /\ ReadBlock(long_state', o1) = sum_half_blocks(old3, Slice(b, 16, 16))
          /\ ReadBlock(long_state', o3) = sum_half_blocks(old2, a)
          /\ ReadBlock(long_state', o2) = sum_half_blocks(old1, Slice(b, 0, 16))
          /\ \A off \in (DOMAIN long_state \cup DOMAIN long_state') \ {o1, o2, o3} :
               ReadBlock(long_state', off) = ReadBlock(long_state, off)
          /\ c1' = IF variant >= 4
                   THEN xor_blocks(xor_blocks(xor_blocks(c1, old1), old2), old3)
                   ELSE c1
    ]_vars

\* the shuffle of variant 4 has run on the last block of the scratchpad
C6_ShuffledLastBlock ==
  /\ pc = "shuffled" /\ variant >= 4 /\ j = MEMORY - AES_BLOCK_SIZE
  /\ a # ZeroBlock /\ c1 # ZeroBlock
  /\ ReadBlock(long_state, XorBits(j, 32, 24)) # ReadBlock(long_state, XorBits(j, 16, 24))

\* C7: for variant 2 and above, at the end of a round b[16..32] holds what
\* b[0..16] held when the round began, and b[0..16] holds c1.
C7_BHistoryRotated ==
  variant >= 2 /\ i > 0 /\ pc \in {"iter1", "absorb_init"} =>
    /\ Slice(b, 16, 16) = Slice(b_start, 0, 16)
    /\ Slice(b, 0, 16) = c1

\* a round of variant 2 or above has ended with two different halves of b
C7_Rotated ==
  /\ variant >= 2 /\ i > 0 /\ pc \in {"iter1", "absorb_init"}
  /\ Slice(b, 16, 16) # Slice(b, 0, 16)
  /\ Slice(b_start, 16, 16) # Slice(b_start, 0, 16)

\* C8: for variants below 2, b[16..32] is zero all along.
C8_SecondHalfOfBZero ==
  variant < 2 => Slice(b, 16, 16) = ZeroBlock

\* the main loop of a variant below 2 has ended with b[0..16] not zero
C8_MainLoopDone ==
  /\ variant < 2 /\ pc = "absorb_init" /\ i = MainRounds
  /\ Slice(b, 0, 16) # ZeroBlock

\* C9: for variants 2 and 3 the divisor has its bits 0 and 31 set, so that the
\* division is never by zero, and division_result holds the quotient cut to
\* 32 bits in its low half and the remainder in its high half.
C9_DivisorAndDivision ==
  [][pc = "math" /\ variant \in {2, 3} =>
       LET divisor == variant2_divisor(c1, sqrt_result)
           dividend == U64(c1, 1)
           quotient == Slice(division_result', 0, 4)
           remainder == Slice(division_result', 4, 4)
       IN /\ BitAt(divisor, 0) = 1 /\ BitAt(divisor, 31) = 1
          /\ pc' = "math_done"
          /\ LessBytes(remainder, divisor, 4)
          /\ \E top \in {0, 1} :
               AddBytes(MulBytes(Resize(quotient \o <<top>>, 5, 8), Resize(divisor, 4, 8), 8),
                        Resize(remainder, 4, 16), 16)
                 = Resize(dividend, 8, 16)
    ]_vars

\* the division of the largest dividend has left a remainder
C9_Divided ==
  /\ pc = "math_done" /\ variant \in {2, 3}
  /\ U64(c1, 1) = <<255, 255, 255, 255, 255, 255, 255, 255>>
  /\ U64(c1, 0) = ZeroBytes(8)
  /\ Slice(division_result, 4, 4) # ZeroBytes(4)

\* C10: the assert of the first half of a round never fails: the first half
\* leaves a as it found it, and j is the offset that e2i gives for a.
C10_AssertHolds ==
  /\ pc # "aborted"
  /\ pc = "iter2" =>
       /\ a = a_start
       /\ j = e2i(a, MEMORY \div AES_BLOCK_SIZE) * AES_BLOCK_SIZE

\* the first half of a round has passed the assert at a j other than 0
C10_AssertPassed ==
  pc = "iter2" /\ j > 0 /\ a = a_start /\ a # ZeroBlock

\* C11: when blake256_hash has written the digest of a message of n bytes,
\* ceil((n + 9) / 64) blocks have been compressed; put end to end they are the
\* message, then the byte 0x81 alone when n mod 64 = 55 and otherwise 0x80,
\* zero bytes and 0x01, then the length 8n in bits as 8 bytes, high byte
\* first, which end the last block; and the buffer is empty.
C11_BlakePadding ==
  pc = "blake256_done" =>
    LET n == blake_inlen
        blocks == (n + 9 + 63) \div 64
        zeros == 64 * blocks - n - 10
        pad == IF n % 64 = 55 THEN <<129>> ELSE <<128>> \o [k \in 1..zeros |-> 0] \o <<1>>
        bits == <<0, 0, 0, 0, 0, (8 * n) \div 65536, ((8 * n) \div 256) % 256, (8 * n) % 256>>
    IN /\ Len(blake_S.compressed) = blocks
       /\ [k \in 1..(64 * Len(blake_S.compressed)) |->
             blake_S.compressed[((k - 1) \div 64) + 1].block[((k - 1) % 64) + 1]]
            = blake_in \o pad \o bits
       /\ blake_S.buflen = 0
       /\ Len(blake_out) = 32

\* the digest of a message of 119 bytes has been written: one block of the
\* message, then one that the single padding byte fills
C11_OnePaddingByte ==
  /\ pc = "blake256_done" /\ blake_inlen = 119
  /\ Len(blake_S.compressed) = 2
  /\ blake_S.compressed[2].block[56] = 129

\* C12 as stated: the sqrt_result stored by variant2_integer_math is
\* floor(sqrt((sqrt_input + 2^64) * 2^64)) - 2^33, that is, with
\* R = sqrt_result + 2^33, R^2 <= (sqrt_input + 2^64) * 2^64 < (R + 1)^2
C12_SqrtOfProductWithTwoTo64 ==
  (pc = "math_done" /\ variant \in {2, 3}) =>
    LET sqrt_input == AddBytes(U64(c1, 0), division_result, 8)
        N == ShlBytes(Resize(AddBytes(Resize(sqrt_input, 8, 9), TwoTo64, 9), 9, 24), 64, 24)
        R == AddBytes(Resize(sqrt_result, 8, 12), Resize(TwoTo33, 8, 12), 12)
        R1 == AddBytes(R, FromNat(1, 12), 12)
    IN /\ ~LessBytes(N, MulBytes(R, R, 12), 24)
       /\ LessBytes(N, MulBytes(R1, R1, 12), 24)

\* C12: the sqrt_result stored by variant2_integer_math, the floating-point
\* estimate after its fix-up, is floor(sqrt((sqrt_input + 2^64) * 4)) - 2^33,
\* the floor of twice the square root of sqrt_input + 2^64, less 2^33: with
\* R = sqrt_result + 2^33, R^2 <= 4 * (sqrt_input + 2^64) < (R + 1)^2
C12_SqrtFloorOfTwiceRoot ==
  (pc = "math_done" /\ variant \in {2, 3}) =>
    LET sqrt_input == AddBytes(U64(c1, 0), division_result, 8)
        N == ShlBytes(Resize(AddBytes(Resize(sqrt_input, 8, 9), TwoTo64, 9), 9, 24), 2, 24)
        R == AddBytes(Resize(sqrt_result, 8, 12), Resize(TwoTo33, 8, 12), 12)
        R1 == AddBytes(R, FromNat(1, 12), 12)
    IN /\ ~LessBytes(N, MulBytes(R, R, 12), 24)
       /\ LessBytes(N, MulBytes(R1, R1, 12), 24)

\* a call has stored a sqrt_result that the fix-up made one less than the
\* floating-point estimate
C12_FixupDecremented ==
  /\ pc = "math_done" /\ variant \in {2, 3}
  /\ AddBytes(sqrt_result, FromNat(1, 8), 8)
       = SqrtEstimate(AddBytes(U64(c1, 0), division_result, 8))

\* C13: for the variants 0 to 3 a call with another height, and the same data
\* and variant, leaves the digest and the scratchpad of the first call, and
\* everything else the call computes.
C13_HeightIgnoredBelowVariant4 ==
  (pc = "returned" /\ calls > 1 /\ variant < 4) =>
    /\ hash = first.hash
    /\ long_state = first.long_state
    /\ Computed = first

\* a call of variant 2 or 3 with height MaxHeight has returned a digest, after
\* a first call with height 0
C13_OtherHeightReturned ==
  /\ pc = "returned" /\ calls = 2 /\ variant \in {2, 3}
  /\ height = MaxHeight
  /\ hash # NoHash /\ hash = first.hash

====
